---- MODULE Spec2Model ----
\* Model of app.py (bus ETA service over the 2GIS device feed): the /eta
\* handler get_eta, its per-key cache cache_data, the upstream call
\* fetch_2gis_data and the pure function calculate_eta.
\*
\* The handler is a coroutine on a single event loop.  Its only suspension
\* point is `await fetch_2gis_data(...)` (line 134); everything before and
\* after it runs without interleaving.  The model keeps the running coroutine
\* in `cur` (with its position `pc`) and the suspended ones in the bag
\* `pending`; while `cur` is running no other coroutine may take a step.
\*
\* Numbers.  stop_part and geometry_way_part are fractions, modelled as
\* integers in units of 1/PartDen.  direction_length is in whole metres.  An
\* ETA in seconds is the rational etaNum / EtaDen with the fixed denominator
\* EtaDen; Python floats are modelled as exact rationals.
EXTENDS Integers, Sequences, FiniteSets, Bags, TLC

VARIABLES
    now,         \* the event loop's clock, in seconds
    cache_data,  \* the dict cache_data: cache key -> entry
    cur,         \* the coroutine that is running, or NoTask
    pending,     \* bag of the coroutines suspended in the upstream call
    stored_by,   \* history: cache key -> the (route, direction) that stored the entry
    run,         \* history: cache key -> length of the current run of empty-result
                 \* solo queries, counted from a point where the miss count was 0
    runA,        \* history: as run, for all queries in the order they end, and
                 \* an upstream refresh starts a new run
    since,       \* history: cache key -> number of empty-result queries ended since
                 \* the key's last refresh or hit (counted up to MISS_LIMIT)
    arg,         \* input of the function under SpecFormat, SpecScan, SpecCalc
    res          \* its result

vars == <<now, cache_data, cur, pending, stored_by, run, runA, since, arg, res>>

\* ---------------------------------------------------------------- config
AVG_SPEED_KMH == 26
ETA_LIMIT_MINUTES == 30
POLL_INTERVAL_DEFAULT == 15
MISS_LIMIT == 5
ETA_LIMIT_SECONDS == ETA_LIMIT_MINUTES * 60

\* ---------------------------------------------------------------- bounds
MaxTicks == 2
MaxTasks == 2
PartDen == 900
MaxHalfSeconds == 3700
MaxDevices == 2
TickStep == POLL_INTERVAL_DEFAULT
MaxTime == MaxTicks * TickStep

\* ---------------------------------------------------------------- inputs
\* (route_name, direction_id) pairs the clients ask for.  The two are different
\* pairs whose joined text is the same.
QueryPairs == {<<"5", "1_2">>, <<"5_1", "2">>}
StopParts == {400}
\* The unit only shapes the number of a hit (lines 190-198); SpecFormat below
\* runs that conversion over both units.
Units == {"min"}

\* ---------------------------------------------------------------- helpers
Min2(a, b) == IF a <= b THEN a ELSE b

RECURSIVE SeqMin(_)
SeqMin(s) == IF Len(s) = 1 THEN s[1] ELSE Min2(s[1], SeqMin(Tail(s)))

\* Python round(): nearest, ties to even, of the rational n / d (n >= 0, d > 0)
RoundHalfEven(n, d) ==
    LET q == n \div d
        r == n % d
    IN  IF 2 * r < d THEN q
        ELSE IF 2 * r > d THEN q + 1
        ELSE IF q % 2 = 0 THEN q ELSE q + 1

\* str.lower() on the unit texts the model uses
Lower(u) == IF u = "MIN" THEN "min" ELSE IF u = "SEC" THEN "sec" ELSE u

\* ---------------------------------------------------------------- cache key
get_cache_key(route_name, direction_id) == route_name \o "_" \o direction_id

\* the pairs of SpecKeys: two routes, hence two cache keys
KeyPairs == {<<"5", "2">>, <<"7", "2">>}

Keys == {get_cache_key(p[1], p[2]) : p \in QueryPairs \cup KeyPairs}

\* ---------------------------------------------------------------- payloads
\* A decoded upstream body: JSON null, or an object with a set of top-level
\* keys and (when "devices" is among them) the device list.
PNone == [isNone |-> TRUE, keys |-> {}, devices |-> << >>]
PEmpty == [isNone |-> FALSE, keys |-> {}, devices |-> << >>]
PNoDevices == [isNone |-> FALSE, keys |-> {"meta"}, devices |-> << >>]
PDevices(ds) == [isNone |-> FALSE, keys |-> {"devices"}, devices |-> ds]

\* Python truthiness of the payload (`not last_response_data`)
Falsy(data) == data.isNone \/ data.keys = {}

\* mutant: the membership test for "devices" is left out
PayloadInvalid_NoKeyCheck(data) == Falsy(data)

\* `not last_response_data or "devices" not in last_response_data` (line 144)
PayloadInvalid(data) == Falsy(data) \/ "devices" \notin data.keys

\* A device record; `missing` lists the fields the record lacks (.get -> None)
Device(tt, rn, did, len, part, missing) ==
    [transport_type |-> tt, route_name |-> rn, direction_id |-> did,
     direction_length |-> len, geometry_way_part |-> part, missing |-> missing]

Has(device, field) == field \notin device.missing

\* ---------------------------------------------------------------- calculate_eta
NoneEta == -1
EtaDen == 5 * AVG_SPEED_KMH * PartDen

\* mutant: a bus exactly at the stop is not counted as past it
calculate_eta_Gt(bus_device, target_stop_part) ==
    IF ~(Has(bus_device, "transport_type") /\ bus_device.transport_type = "bus")
    THEN NoneEta
    ELSE IF ~(/\ Has(bus_device, "route_name")
              /\ Has(bus_device, "direction_length")
              /\ Has(bus_device, "geometry_way_part"))
    THEN NoneEta
    ELSE LET bus_moved_part == bus_device.direction_length * bus_device.geometry_way_part
             stop_way_distance == bus_device.direction_length * target_stop_part
         IN  IF bus_moved_part > stop_way_distance
             THEN NoneEta
             ELSE (stop_way_distance - bus_moved_part) * 18

\* mutant: the remaining distance is taken with the wrong sign of the
\* distance already travelled
calculate_eta_Sum(bus_device, target_stop_part) ==
    IF ~(Has(bus_device, "transport_type") /\ bus_device.transport_type = "bus")
    THEN NoneEta
    ELSE IF ~(/\ Has(bus_device, "route_name")
              /\ Has(bus_device, "direction_length")
              /\ Has(bus_device, "geometry_way_part"))
    THEN NoneEta
    ELSE LET bus_moved_part == bus_device.direction_length * bus_device.geometry_way_part
             stop_way_distance == bus_device.direction_length * target_stop_part
         IN  IF bus_moved_part >= stop_way_distance
             THEN NoneEta
             ELSE (stop_way_distance + bus_moved_part) * 18

\* eta_seconds * EtaDen, or NoneEta
calculate_eta(bus_device, target_stop_part) ==
    IF ~(Has(bus_device, "transport_type") /\ bus_device.transport_type = "bus")
    THEN NoneEta
    ELSE IF ~(/\ Has(bus_device, "route_name")
              /\ Has(bus_device, "direction_length")
              /\ Has(bus_device, "geometry_way_part"))
    THEN NoneEta
    ELSE LET bus_moved_part == bus_device.direction_length * bus_device.geometry_way_part
             stop_way_distance == bus_device.direction_length * target_stop_part
         IN  IF bus_moved_part >= stop_way_distance
             THEN NoneEta
             ELSE (stop_way_distance - bus_moved_part) * 18

\* mutant: the direction is not compared
DeviceMatches_RouteOnly(device, route_name, direction_id) ==
    Has(device, "route_name") /\ device.route_name = route_name

\* the filter of line 154
DeviceMatches(device, route_name, direction_id) ==
    /\ Has(device, "route_name") /\ device.route_name = route_name
    /\ Has(device, "direction_id") /\ device.direction_id = direction_id

\* the loop of lines 151-157
RECURSIVE CandidateEtas(_, _, _, _)
CandidateEtas(devices, route_name, direction_id, stop_part) ==
    IF devices = << >> THEN << >>
    ELSE LET device == Head(devices)
             rest == CandidateEtas(Tail(devices), route_name, direction_id, stop_part)
             eta == calculate_eta(device, stop_part)
         IN  IF DeviceMatches(device, route_name, direction_id) /\ eta # NoneEta
             THEN <<eta>> \o rest
             ELSE rest

\* ---------------------------------------------------------------- responses
EtaNull == [kind |-> "null", text |-> "", num10 |-> 0]
EtaText(t) == [kind |-> "text", text |-> t, num10 |-> 0]
\* a number, kept as ten times its value (minutes carry one decimal)
EtaNumber(n10) == [kind |-> "num", text |-> "", num10 |-> n10]

NoResponse == [status |-> 0, eta |-> EtaNull]
Ok(eta) == [status |-> 200, eta |-> eta]
HttpError(code) == [status |-> code, eta |-> EtaNull]

\* f">{ETA_LIMIT_MINUTES}" (line 173)
MissMarker == ">" \o ToString(ETA_LIMIT_MINUTES)
\* f">{ETA_LIMIT_MINUTES}m" (line 187; the suffix is the Cyrillic letter em)
LimitMarker == ">" \o ToString(ETA_LIMIT_MINUTES) \o "m"

\* lines 190-198: the number reported for min_eta_seconds = etaNum / EtaDen
ConvertEta(etaNum, unit) ==
    IF Lower(unit) = "min"
    THEN LET result_value == RoundHalfEven(etaNum, 6 * EtaDen)
         IN  IF result_value <= 0 THEN 0 ELSE result_value
    ELSE 10 * RoundHalfEven(etaNum, EtaDen)

\* lines 184-201
FormatEta(etaNum, unit) ==
    IF etaNum > ETA_LIMIT_SECONDS * EtaDen
    THEN EtaText(LimitMarker)
    ELSE EtaNumber(ConvertEta(etaNum, unit))

\* ---------------------------------------------------------------- cache
\* mutant: every query refreshes
CacheExpired_Always(cache, key, current_time) == TRUE

\* mutant: an entry exactly POLL_INTERVAL_DEFAULT old counts as expired
CacheExpired_Ge(cache, key, current_time) ==
    \/ key \notin DOMAIN cache
    \/ current_time - cache[key].time >= POLL_INTERVAL_DEFAULT

\* line 130
CacheExpired(cache, key, current_time) ==
    \/ key \notin DOMAIN cache
    \/ current_time - cache[key].time > POLL_INTERVAL_DEFAULT

\* line 136
NewEntry(raw_data, current_time) ==
    [data |-> raw_data, time |-> current_time, miss_count |-> 0]

\* mutant: the store rebuilds the dict with the one entry
Put_Only(cache, key, entry) == [k \in {key} |-> entry]

\* cache_data[cache_key] = entry
Put(cache, key, entry) ==
    [k \in DOMAIN cache \cup {key} |-> IF k = key THEN entry ELSE cache[k]]

\* ---------------------------------------------------------------- tasks
NoTask == [pc |-> "idle"]

\* The claims' own reading of "the key has no entry or the entry is older
\* than the TTL" (history, recorded when a query arrives)
AbsentOrStale(cache, key, t) ==
    key \notin DOMAIN cache \/ t - cache[key].time > POLL_INTERVAL_DEFAULT

MissCountOf(cache, key) == IF key \in DOMAIN cache THEN cache[key].miss_count ELSE -1

\* A query: its parameters, its local variables, and (the fields from calls on) history
\* the properties below refer to.
NewTask(rn, did, sp, unit, time, expired) ==
    [pc |-> "await", route_name |-> rn, direction_id |-> did, stop_part |-> sp,
     unit |-> unit, cache_key |-> get_cache_key(rn, did), current_time |-> time,
     cache_expired |-> expired, raw_data |-> PNone, candidate_etas |-> << >>,
     miss_count |-> 0, response |-> NoResponse,
     calls |-> 0, stale0 |-> FALSE, pre_data |-> PNone, miss_before |-> -1,
     error |-> "", outcome |-> "", solo |-> TRUE, pos |-> 0, posA |-> 0,
     cached_item |-> "none", miss_read |-> -1]

\* The local variable cached_item refers to an entry object (lines 129, 141):
\* "none" (None), "entry" (the object the dict holds under the key now) or
\* "replaced" (an object a later line 136 has put another in place of).
Detach(key, t) ==
    IF t.cache_key = key /\ t.cached_item = "entry"
    THEN [t EXCEPT !.cached_item = "replaced"]
    ELSE t

\* cached_item['miss_count']: the values it may have.  The content of a
\* replaced object is not kept, so any count an entry can hold is possible.
ItemMiss(cache, t) ==
    IF t.cached_item = "entry" THEN {cache[t.cache_key].miss_count} ELSE 0..(MISS_LIMIT - 1)

\* cached_item['miss_count'] = mc: the dict's entry changes only if the
\* object referred to is the one the dict holds
SetItemMiss(cache, t, mc) ==
    IF t.cached_item = "entry" THEN [cache EXCEPT ![t.cache_key].miss_count = mc] ELSE cache

\* mutant: line 141 is skipped when line 129 already found an entry
Rebind_KeepFirst(t) ==
    IF t.cached_item = "none" THEN [t EXCEPT !.cached_item = "entry"] ELSE t

\* line 141: cached_item = cache_data[cache_key]
Rebind(t) == [t EXCEPT !.cached_item = "entry"]

At(t, pc) == [t EXCEPT !.pc = pc]
Finish(t, outcome, resp) == [t EXCEPT !.pc = "done", !.outcome = outcome, !.response = resp]

\* history: a query is solo while no other query for its key is under way at
\* the same time (it neither arrives during another's upstream call nor has
\* another arrive during its own)
InFlight(key) == {t \in BagToSet(pending) : t.cache_key = key}
Unsolo(bag, key) ==
    BagOfAll(LAMBDA t : IF t.cache_key = key THEN [t EXCEPT !.solo = FALSE] ELSE t, bag)
SoloRun(t, r) == IF t.solo THEN r ELSE -1

\* history: the run length after a query for the key has ended
\* (-1: the run did not start from a miss count of 0)
RunAfter(r, empty, miss_after) ==
    IF miss_after <= 0 THEN 0
    ELSE IF empty /\ r >= 0 /\ r + 1 < MISS_LIMIT THEN r + 1
    ELSE -1

\* what the upstream may answer for a query: malformed bodies, no devices,
\* or one bus of the asked route and direction that has not reached the stop
UpstreamPayloads(rn, did) ==
    {PNone, PEmpty, PNoDevices, PDevices(<< >>),
     PDevices(<<Device("bus", rn, did, 6500, 281, {})>>)}

UpstreamErrors == {"status", "request", "other"}

\* ---------------------------------------------------------------- actions
InitCache ==
    /\ now = 0
    /\ cache_data = << >>
    /\ cur = NoTask
    /\ pending = EmptyBag
    /\ stored_by = << >>
    /\ run = [k \in Keys |-> 0]
    /\ runA = [k \in Keys |-> 0]
    /\ since = [k \in Keys |-> 0]

NoArg == [etaNum |-> 0, unit |-> ""]

Init ==
    /\ InitCache
    /\ arg = NoArg
    /\ res = NoResponse

\* the event loop's clock advances (between coroutine steps)
Tick ==
    /\ cur = NoTask
    /\ now + TickStep <= MaxTime
    /\ now' = now + TickStep
    /\ UNCHANGED <<cache_data, cur, pending, stored_by, run, runA, since, arg, res>>

\* lines 125-134: a query arrives, looks at the cache and either suspends in
\* the upstream call or goes on with the cached entry
Request(rn, did, sp, unit) ==
    /\ cur = NoTask
    /\ LET key == get_cache_key(rn, did)
           expired == CacheExpired(cache_data, key, now)
           t == [NewTask(rn, did, sp, unit, now, expired)
                   EXCEPT !.stale0 = AbsentOrStale(cache_data, key, now),
                          !.solo = (InFlight(key) = {}),
                          !.cached_item = IF key \in DOMAIN cache_data THEN "entry" ELSE "none"]
       IN  IF expired
           THEN /\ BagCardinality(pending) < MaxTasks
                /\ pending' = Unsolo(pending, key) (+) SetToBag({[t EXCEPT !.calls = 1]})
                /\ cur' = cur
           ELSE /\ cur' = [At(t, "read") EXCEPT
                              !.pre_data = cache_data[key].data,
                              !.miss_before = cache_data[key].miss_count]
                /\ pending' = Unsolo(pending, key)
    /\ UNCHANGED <<now, cache_data, stored_by, run, runA, since, arg, res>>

\* lines 49-53: the upstream call returns a decoded body
FetchReturnFrom(t, payloads) ==
    /\ cur = NoTask
    /\ BagIn(t, pending)
    /\ pending' = pending (-) SetToBag({t})
    /\ \E data \in payloads :
          cur' = [At(t, "store") EXCEPT !.raw_data = data,
                     !.miss_before = MissCountOf(cache_data, t.cache_key)]
    /\ UNCHANGED <<now, cache_data, stored_by, run, runA, since, arg, res>>

FetchReturn(t) == FetchReturnFrom(t, UpstreamPayloads(t.route_name, t.direction_id))

\* lines 54-62: the status the HTTPException carries
FetchStatus(err) == IF err = "other" THEN 500 ELSE 502

\* mutant: a failed refresh falls back to the entry the cache still holds
FetchFail_ServeStale(t, err) ==
    /\ cur = NoTask
    /\ BagIn(t, pending)
    /\ pending' = pending (-) SetToBag({t})
    /\ LET mb == MissCountOf(cache_data, t.cache_key)
       IN  IF t.cache_key \in DOMAIN cache_data
           THEN /\ cur' = [At(t, "read") EXCEPT !.miss_before = mb, !.error = err]
                /\ UNCHANGED <<run, runA>>
           ELSE /\ cur' = [Finish(t, "fetch_error", HttpError(FetchStatus(err)))
                             EXCEPT !.miss_before = mb, !.error = err]
                /\ run' = [run EXCEPT ![t.cache_key] = RunAfter(SoloRun(t, @), FALSE, mb)]
                /\ runA' = [runA EXCEPT ![t.cache_key] = RunAfter(@, FALSE, mb)]
    /\ UNCHANGED <<now, cache_data, stored_by, since, arg, res>>

\* mutant: a failed refresh is remembered as an entry without payload
FetchFail_StoreNone(t, err) ==
    /\ cur = NoTask
    /\ BagIn(t, pending)
    /\ pending' = pending (-) SetToBag({t})
    /\ cache_data' = Put(cache_data, t.cache_key, NewEntry(PNone, t.current_time))
    /\ LET mb == MissCountOf(cache_data, t.cache_key)
       IN  /\ cur' = [Finish(t, "fetch_error", HttpError(FetchStatus(err)))
                        EXCEPT !.miss_before = mb, !.error = err]
           /\ run' = [run EXCEPT ![t.cache_key] = RunAfter(SoloRun(t, @), FALSE, mb)]
           /\ runA' = [runA EXCEPT ![t.cache_key] = RunAfter(@, FALSE, mb)]
    /\ UNCHANGED <<now, stored_by, since, arg, res>>

\* lines 54-62: the upstream call fails; the HTTPException ends the query
FetchFail(t, err) ==
    /\ cur = NoTask
    /\ BagIn(t, pending)
    /\ pending' = pending (-) SetToBag({t})
    /\ LET mb == MissCountOf(cache_data, t.cache_key)
       IN  /\ cur' = [Finish(t, "fetch_error", HttpError(FetchStatus(err)))
                        EXCEPT !.miss_before = mb, !.error = err]
           /\ run' = [run EXCEPT ![t.cache_key] = RunAfter(SoloRun(t, @), FALSE, mb)]
           /\ runA' = [runA EXCEPT ![t.cache_key] = RunAfter(@, FALSE, mb)]
    /\ UNCHANGED <<now, cache_data, stored_by, since, arg, res>>

\* mutant: the payload is validated before it is stored
Store_ValidateFirst ==
    /\ cur.pc = "store"
    /\ IF PayloadInvalid(cur.raw_data)
       THEN /\ cur' = Finish(cur, "invalid", HttpError(502))
            /\ UNCHANGED <<cache_data, stored_by, runA, since, pending>>
       ELSE /\ cache_data' = Put(cache_data, cur.cache_key, NewEntry(cur.raw_data, cur.current_time))
            /\ stored_by' = Put(stored_by, cur.cache_key, <<cur.route_name, cur.direction_id>>)
            /\ runA' = [runA EXCEPT ![cur.cache_key] = 0]
            /\ since' = [since EXCEPT ![cur.cache_key] = 0]
            /\ cur' = At(Detach(cur.cache_key, cur), "read")
            /\ pending' = BagOfAll(LAMBDA t : Detach(cur.cache_key, t), pending)
    /\ UNCHANGED <<now, run, arg, res>>

\* line 136
Store ==
    /\ cur.pc = "store"
    /\ cache_data' = Put(cache_data, cur.cache_key, NewEntry(cur.raw_data, cur.current_time))
    /\ stored_by' = Put(stored_by, cur.cache_key, <<cur.route_name, cur.direction_id>>)
    /\ runA' = [runA EXCEPT ![cur.cache_key] = 0]
    /\ since' = [since EXCEPT ![cur.cache_key] = 0]
    /\ cur' = At(Detach(cur.cache_key, cur), "read")
    /\ pending' = BagOfAll(LAMBDA t : Detach(cur.cache_key, t), pending)
    /\ UNCHANGED <<now, run, arg, res>>

\* lines 141-157: read the entry, validate the payload, collect the ETAs
Read ==
    /\ cur.pc = "read"
    /\ LET last_response_data == cache_data[cur.cache_key].data
           mc == cache_data[cur.cache_key].miss_count
           t == [Rebind(cur) EXCEPT !.raw_data = last_response_data, !.miss_read = mc]
       IN  IF PayloadInvalid(last_response_data)
           THEN /\ cur' = Finish(t, "invalid", HttpError(502))
                /\ run' = [run EXCEPT ![cur.cache_key] = RunAfter(SoloRun(cur, @), FALSE, mc)]
                /\ runA' = [runA EXCEPT ![cur.cache_key] = RunAfter(@, FALSE, mc)]
           ELSE LET etas == CandidateEtas(last_response_data.devices, cur.route_name,
                                          cur.direction_id, cur.stop_part)
                IN  /\ cur' = [At(t, IF etas = << >> THEN "miss" ELSE "hit")
                                  EXCEPT !.candidate_etas = etas]
                    /\ UNCHANGED <<run, runA>>
    /\ UNCHANGED <<now, cache_data, pending, stored_by, since, arg, res>>

\* lines 161-162
MissIncrement ==
    /\ cur.pc = "miss"
    /\ \E m \in ItemMiss(cache_data, cur) :
          LET mc == m + 1
          IN  /\ cache_data' = SetItemMiss(cache_data, cur, mc)
              /\ cur' = [At(cur, "limit") EXCEPT !.miss_count = mc]
    /\ UNCHANGED <<now, pending, stored_by, run, runA, since, arg, res>>

\* mutant: the limit counts as reached one miss later
LimitReached_Gt(miss_count) == miss_count > MISS_LIMIT

\* mutant: the limit counts as reached one miss earlier
LimitReached_Early(miss_count) == miss_count >= MISS_LIMIT - 1

\* line 165
LimitReached(miss_count) == miss_count >= MISS_LIMIT

\* mutant: line 168 (the reset on reaching the limit) is left out
MissLimit_NoReset ==
    /\ cur.pc = "limit"
    /\ LET key == cur.cache_key
           t == [cur EXCEPT !.pos = IF cur.solo /\ run[key] >= 0 THEN run[key] + 1 ELSE -1,
                            !.posA = IF runA[key] >= 0 THEN runA[key] + 1 ELSE -1]
       IN  /\ IF LimitReached(cur.miss_count)
              THEN /\ cache_data' = cache_data
                   /\ cur' = Finish(t, "miss", Ok(EtaNull))
              ELSE /\ cache_data' = cache_data
                   /\ cur' = Finish(t, "miss", Ok(EtaText(MissMarker)))
           /\ run' = [run EXCEPT ![key] = RunAfter(SoloRun(cur, @), TRUE, cache_data'[key].miss_count)]
           /\ runA' = [runA EXCEPT ![key] = RunAfter(@, TRUE, cache_data'[key].miss_count)]
           /\ since' = [since EXCEPT ![key] = IF @ < MISS_LIMIT THEN @ + 1 ELSE @]
    /\ UNCHANGED <<now, pending, stored_by, arg, res>>

\* lines 165-175
MissLimit ==
    /\ cur.pc = "limit"
    /\ LET key == cur.cache_key
           t == [cur EXCEPT !.pos = IF cur.solo /\ run[key] >= 0 THEN run[key] + 1 ELSE -1,
                            !.posA = IF runA[key] >= 0 THEN runA[key] + 1 ELSE -1]
       IN  /\ IF LimitReached(cur.miss_count)
              THEN /\ cache_data' = SetItemMiss(cache_data, cur, 0)
                   /\ cur' = Finish(t, "miss", Ok(EtaNull))
              ELSE /\ cache_data' = cache_data
                   /\ cur' = Finish(t, "miss", Ok(EtaText(MissMarker)))
           /\ run' = [run EXCEPT ![key] = RunAfter(SoloRun(cur, @), TRUE, cache_data'[key].miss_count)]
           /\ runA' = [runA EXCEPT ![key] = RunAfter(@, TRUE, cache_data'[key].miss_count)]
           /\ since' = [since EXCEPT ![key] = IF @ < MISS_LIMIT THEN @ + 1 ELSE @]
    /\ UNCHANGED <<now, pending, stored_by, arg, res>>

\* mutant: line 181 (the reset on a hit) is left out
Hit_NoReset ==
    /\ cur.pc = "hit"
    /\ cache_data' = cache_data
    /\ cur' = Finish(cur, "hit", Ok(FormatEta(SeqMin(cur.candidate_etas), cur.unit)))
    /\ run' = [run EXCEPT ![cur.cache_key] = RunAfter(SoloRun(cur, @), FALSE, cache_data[cur.cache_key].miss_count)]
    /\ runA' = [runA EXCEPT ![cur.cache_key] = RunAfter(@, FALSE, cache_data[cur.cache_key].miss_count)]
    /\ since' = [since EXCEPT ![cur.cache_key] = 0]
    /\ UNCHANGED <<now, pending, stored_by, arg, res>>

\* lines 179-201
Hit ==
    /\ cur.pc = "hit"
    /\ cache_data' = SetItemMiss(cache_data, cur, 0)
    /\ cur' = Finish(cur, "hit", Ok(FormatEta(SeqMin(cur.candidate_etas), cur.unit)))
    /\ run' = [run EXCEPT ![cur.cache_key] = 0]
    /\ runA' = [runA EXCEPT ![cur.cache_key] = 0]
    /\ since' = [since EXCEPT ![cur.cache_key] = 0]
    /\ UNCHANGED <<now, pending, stored_by, arg, res>>

\* the response (or the HTTPException) leaves the handler
Return ==
    /\ cur.pc = "done"
    /\ cur' = NoTask
    /\ UNCHANGED <<now, cache_data, pending, stored_by, run, runA, since, arg, res>>

Next ==
    \/ Tick
    \/ \E p \in QueryPairs, sp \in StopParts, unit \in Units : Request(p[1], p[2], sp, unit)
    \/ \E t \in BagToSet(pending) : FetchReturn(t)
    \/ \E t \in BagToSet(pending), err \in UpstreamErrors : FetchFail(t, err)
    \/ Store
    \/ Read
    \/ MissIncrement
    \/ MissLimit
    \/ Hit
    \/ Return

Spec == Init /\ [][Next]_vars

\* ---------------------------------------------------------------- SpecKeys
\* The same handler with queries for two routes, hence two cache keys; the
\* upstream answers with no devices or with one bus, or fails with a request
\* error.  The clock makes one jump, from the start to MaxTime, past the TTL
\* of every entry stored before it.
KeysPayloads(rn, did) ==
    {PDevices(<< >>), PDevices(<<Device("bus", rn, did, 6500, 281, {})>>)}

TickFar ==
    /\ cur = NoTask
    /\ now < MaxTime
    /\ now' = MaxTime
    /\ UNCHANGED <<cache_data, cur, pending, stored_by, run, runA, since, arg, res>>

NextKeys ==
    \/ TickFar
    \/ \E p \in KeyPairs, sp \in StopParts, unit \in Units : Request(p[1], p[2], sp, unit)
    \/ \E t \in BagToSet(pending) : FetchReturnFrom(t, KeysPayloads(t.route_name, t.direction_id))
    \/ \E t \in BagToSet(pending) : FetchFail(t, "request")
    \/ Store
    \/ Read
    \/ MissIncrement
    \/ MissLimit
    \/ Hit
    \/ Return

SpecKeys == Init /\ [][NextKeys]_vars

\* ---------------------------------------------------------------- SpecFormat
\* The result formatting of lines 184-201 as a function of the minimum ETA
\* and the unit: the inputs are drawn in the initial state (every half second
\* up to MaxHalfSeconds / 2 seconds) and the one action applies the function.
FormatInputs ==
    [etaNum : {h * (EtaDen \div 2) : h \in 0..MaxHalfSeconds}, unit : {"min", "sec", "MIN"}]

InitFormat ==
    /\ InitCache
    /\ arg \in FormatInputs
    /\ res = NoResponse

Format ==
    /\ res = NoResponse
    /\ res' = Ok(FormatEta(arg.etaNum, arg.unit))
    /\ UNCHANGED <<now, cache_data, cur, pending, stored_by, run, runA, since, arg>>

NextFormat == Format

SpecFormat == InitFormat /\ [][NextFormat]_vars

\* ---------------------------------------------------------------- SpecScan
\* Lines 148-201 as a function of the payload's device list and the query:
\* the loop over the devices, then the hit branch's formatting.  The miss
\* branch depends on the entry's miss_count and is left to Spec; here it is
\* only recorded that no ETA was found.
ServePayload(devices, route_name, direction_id, stop_part, unit) ==
    LET candidate_etas == CandidateEtas(devices, route_name, direction_id, stop_part)
    IN  IF candidate_etas = << >>
        THEN [outcome |-> "miss", candidate_etas |-> candidate_etas, response |-> NoResponse]
        ELSE [outcome |-> "hit", candidate_etas |-> candidate_etas,
              response |-> Ok(FormatEta(SeqMin(candidate_etas), unit))]

\* The query of SpecScan: route "5", direction "2", stop at 400 / PartDen.
ScanRoute == "5"
ScanDirection == "2"
ScanStop == 400

\* Reports of every kind the loop tells apart.  With direction_length 6500 a
\* bus at part g is (ScanStop - g) seconds away, with 65000 ten times that.
ScanDevices ==
    { Device("bus", ScanRoute, ScanDirection, 6500, 310, {}),
      Device("bus", ScanRoute, ScanDirection, 6500, 281, {}),
      Device("bus", ScanRoute, ScanDirection, 65000, 200, {}),
      Device("bus", ScanRoute, ScanDirection, 6500, 400, {}),
      Device("bus", ScanRoute, ScanDirection, 6500, 500, {}),
      Device("bus", ScanRoute, ScanDirection, 0, 100, {}),
      Device("tram", ScanRoute, ScanDirection, 6500, 390, {}),
      Device("bus", "7", ScanDirection, 6500, 391, {}),
      Device("bus", ScanRoute, "1", 6500, 392, {}),
      Device("bus", ScanRoute, ScanDirection, 6500, 393, {"transport_type"}),
      Device("bus", ScanRoute, ScanDirection, 6500, 394, {"route_name"}),
      Device("bus", ScanRoute, ScanDirection, 6500, 395, {"direction_id"}),
      Device("bus", ScanRoute, ScanDirection, 6500, 396, {"direction_length"}),
      Device("bus", ScanRoute, ScanDirection, 6500, 397, {"geometry_way_part"}) }

DeviceLists == UNION {[1..n -> ScanDevices] : n \in 0..MaxDevices}

\* return_all_sorted is a query parameter the client may send; the signature
\* of get_eta (lines 118-124) declares no such parameter, so it is dropped.
ScanInputs ==
    [devices : DeviceLists, unit : {"min", "sec"}, return_all_sorted : BOOLEAN]

\* nothing served yet
NotServed == [outcome |-> "", candidate_etas |-> << >>, response |-> NoResponse]

InitScan ==
    /\ InitCache
    /\ arg \in ScanInputs
    /\ res = NotServed

Scan ==
    /\ res = NotServed
    /\ res' = ServePayload(arg.devices, ScanRoute, ScanDirection, ScanStop, arg.unit)
    /\ UNCHANGED <<now, cache_data, cur, pending, stored_by, run, runA, since, arg>>

NextScan == Scan

SpecScan == InitScan /\ [][NextScan]_vars

\* ---------------------------------------------------------------- SpecCalc
\* calculate_eta (lines 64-114) as a function of one device report and the
\* stop: the report, a second position of the same vehicle and the stop are
\* drawn in the initial state, and the one action applies the function to
\* the report at either position.
CalcParts == {0, 281, 399, 400, 401, 900}
CalcLengths == {0, 6500, 13000}
CalcFields ==
    {"transport_type", "route_name", "direction_id", "direction_length", "geometry_way_part"}

CalcInputs ==
    [device : {Device(tt, "5", "2", len, part, missing) :
                   tt \in {"bus", "tram"}, len \in CalcLengths, part \in CalcParts,
                   missing \in {{}} \cup {{f} : f \in CalcFields}},
     part2 : CalcParts,
     stop_part : {0, 400, 900}]

NotCalculated == [done |-> FALSE, eta |-> NoneEta, eta2 |-> NoneEta]

InitCalc ==
    /\ InitCache
    /\ arg \in CalcInputs
    /\ res = NotCalculated

Calc ==
    /\ res = NotCalculated
    /\ res' = [done |-> TRUE,
               eta |-> calculate_eta(arg.device, arg.stop_part),
               eta2 |-> calculate_eta([arg.device EXCEPT !.geometry_way_part = arg.part2],
                                      arg.stop_part)]
    /\ UNCHANGED <<now, cache_data, cur, pending, stored_by, run, runA, since, arg>>

NextCalc == Calc

SpecCalc == InitCalc /\ [][NextCalc]_vars

\* ================================================================ properties
Running == cur.pc # "idle"
Done == cur.pc = "done"
\* the query has read its payload (line 142) and was not ended by the upstream call
ReadPayload == cur.pc \in {"miss", "limit", "hit", "done"} /\ cur.error = ""
EntryOf(t) == cache_data[t.cache_key]

\* C1: for every cache key at most one upstream refresh is in flight at any
\* time (a second query for the key does not start its own upstream call).
C1_SingleFlight ==
    \A key \in Keys :
        /\ Cardinality(InFlight(key)) <= 1
        /\ \A t \in InFlight(key) : CopiesIn(t, pending) <= 1

\* C2: a query that starts while the key's entry is at most
\* POLL_INTERVAL_DEFAULT seconds old makes no upstream call and works on the
\* payload the entry already held, which stays in the cache.
C2_FreshServedFromCache ==
    /\ \A t \in BagToSet(pending) : t.stale0
    /\ (Running /\ ~cur.stale0) =>
          /\ cur.calls = 0
          /\ EntryOf(cur).data = cur.pre_data
          /\ ReadPayload => cur.raw_data = cur.pre_data

C2_Witness ==
    /\ Done /\ ~cur.stale0 /\ cur.outcome = "hit"
    /\ cur.current_time - EntryOf(cur).time = POLL_INTERVAL_DEFAULT

\* C3: a query calls upstream once if the key has no entry or the entry is
\* more than POLL_INTERVAL_DEFAULT old (strictly), and never otherwise; after
\* a successful refresh the entry holds the new payload, the query's time and
\* a miss count of 0.
C3_UpstreamCalls ==
    /\ \A t \in BagToSet(pending) : t.calls = 1 /\ t.stale0
    /\ Running => cur.calls = (IF cur.stale0 THEN 1 ELSE 0)
    /\ (cur.pc = "read" /\ cur.calls = 1) =>
          EntryOf(cur) = [data |-> cur.raw_data, time |-> cur.current_time, miss_count |-> 0]

C3_Witness ==
    /\ cur.pc = "read" /\ cur.calls = 1 /\ cur.miss_before > 0
    /\ EntryOf(cur).miss_count = 0

\* The outcome of an empty-result query that is the n-th of its run
NthMissOutcome(n) ==
    /\ cur.response.status = 200
    /\ n <= MISS_LIMIT
    /\ IF n = MISS_LIMIT
       THEN cur.response.eta = EtaNull /\ EntryOf(cur).miss_count = 0
       ELSE cur.response.eta = EtaText(MissMarker)

\* C4 as stated: in any run of consecutive empty-result queries for a key that
\* starts from a miss count of 0, queries 1 .. MISS_LIMIT-1 return the
\* beyond-limit text, the MISS_LIMIT-th returns null and resets the count, and
\* the next one starts over.  (cur.pos counts runs of queries that follow one
\* another without overlapping, so the duplicate refreshes of C1 play no part.)
C4_Original ==
    (Done /\ cur.outcome = "miss" /\ cur.pos >= 1) => NthMissOutcome(cur.pos)

\* C4 amended: the same, for runs in which the entry is not refreshed from
\* upstream; a refresh starts a new run whose first query is the refreshing
\* one.  (cur.posA counts the queries in the order they end, overlapping or not.)
C4_MissCycle ==
    (Done /\ cur.outcome = "miss" /\ cur.posA >= 1) => NthMissOutcome(cur.posA)

C4_Witness ==
    /\ Done /\ cur.outcome = "miss" /\ cur.posA = MISS_LIMIT
    /\ cur.response.eta = EtaNull

\* C5: after a query that found an applicable vehicle, and after a successful
\* refresh of the key's entry, the key's miss count is 0.
C5_StreakZero ==
    /\ (Done /\ cur.outcome = "hit") => EntryOf(cur).miss_count = 0
    /\ (cur.pc = "read" /\ cur.calls = 1) => EntryOf(cur).miss_count = 0

C5_Witness ==
    /\ Done /\ cur.outcome = "hit" /\ cur.miss_before > 0
    /\ EntryOf(cur).miss_count = 0

\* C6: unless a query stands between its increment and its limit check, every
\* entry has 0 <= miss_count < MISS_LIMIT.
C6_StreakBelowLimit ==
    cur.pc # "limit" =>
        \A key \in DOMAIN cache_data :
            cache_data[key].miss_count >= 0 /\ cache_data[key].miss_count < MISS_LIMIT

C6_Witness == Done /\ cur.miss_count = MISS_LIMIT /\ EntryOf(cur).miss_count = 0

\* C7: a query whose upstream call fails with a bad status or a transport
\* failure ends with status 502 after that one call, and without a value
\* computed from a cached payload.
C7_FetchFailure ==
    (Done /\ cur.error \in {"status", "request"}) =>
        /\ cur.response = HttpError(502)
        /\ cur.calls = 1
        /\ cur.outcome = "fetch_error"
        /\ cur.raw_data = PNone /\ cur.candidate_etas = << >>

C7_Witness ==
    /\ Done /\ cur.error = "request"
    /\ cur.cache_key \in DOMAIN cache_data
    /\ ~PayloadInvalid(EntryOf(cur).data)

\* absent, empty, or without a device list
BadPayload(data) == data.isNone \/ data.keys = {} \/ "devices" \notin data.keys

\* C8 as stated: a query whose payload is absent, empty or without a device
\* list ends with status 502 and leaves the key's miss count as the query found
\* it; a payload with an empty device list is an ordinary miss.  (The miss
\* count is compared for solo queries, so that no other query can have changed
\* it in between.)
C8_Original ==
    /\ (Done /\ cur.error = "" /\ BadPayload(cur.raw_data)) =>
          /\ cur.response = HttpError(502)
          /\ (cur.solo /\ cur.miss_before >= 0) => EntryOf(cur).miss_count = cur.miss_before
    /\ (Done /\ cur.error = "" /\ cur.raw_data = PDevices(<< >>)) =>
          cur.outcome = "miss" /\ cur.response.status = 200

\* C8 amended: such a query ends with status 502 and does not touch the miss
\* count after its cache lookup: the count is 0 if the query refreshed the
\* entry and as the query found it otherwise.
C8_InvalidPayload ==
    /\ (Done /\ cur.error = "" /\ BadPayload(cur.raw_data)) =>
          /\ cur.response = HttpError(502)
          /\ cur.outcome = "invalid"
          /\ EntryOf(cur).miss_count = (IF cur.calls = 1 THEN 0 ELSE cur.miss_before)
    /\ (Done /\ cur.error = "" /\ cur.raw_data = PDevices(<< >>)) =>
          cur.outcome = "miss" /\ cur.response.status = 200

C8_Witness ==
    /\ Done /\ cur.outcome = "invalid" /\ cur.calls = 1 /\ cur.miss_before > 0
    /\ cur.raw_data = PNoDevices /\ EntryOf(cur).miss_count = 0

\* C9: different (route_name, direction_id) pairs have different cache
\* entries: the payload a query works on was stored by a query for the same
\* pair.
C9_DistinctEntries ==
    ReadPayload => stored_by[cur.cache_key] = <<cur.route_name, cur.direction_id>>

\* C10: for a minimum ETA of s whole seconds, 0 <= s <= ETA_LIMIT_SECONDS, the
\* result with unit min is the integer s div 60, and with unit sec it is s.
C10_MinutesTruncate ==
    (res.status = 200 /\ arg.etaNum % EtaDen = 0 /\ arg.etaNum <= ETA_LIMIT_SECONDS * EtaDen) =>
        LET s == arg.etaNum \div EtaDen
        IN  res.eta = EtaNumber(10 * (IF Lower(arg.unit) = "min" THEN s \div 60 ELSE s))

\* C11: the ceiling is tested on the raw seconds, whatever the unit: an ETA
\* above ETA_LIMIT_SECONDS is reported as the beyond-limit marker, one at or
\* below it as a number; and that marker is the value the miss path returns.
C11_CeilingMarker ==
    res.status = 200 =>
        IF arg.etaNum > ETA_LIMIT_SECONDS * EtaDen
        THEN res.eta = EtaText(MissMarker)
        ELSE res.eta.kind = "num"

\* Ascending insertion sort of a sequence of numbers
RECURSIVE Insert(_, _)
Insert(x, seq) ==
    IF seq = << >> THEN <<x>>
    ELSE IF x <= Head(seq) THEN <<x>> \o seq
    ELSE <<Head(seq)>> \o Insert(x, Tail(seq))

RECURSIVE SortAsc(_)
SortAsc(seq) == IF seq = << >> THEN << >> ELSE Insert(Head(seq), SortAsc(Tail(seq)))

\* the list the claim describes: all ETAs ascending by raw seconds, each
\* then formatted on its own
AllSortedEtas(candidate_etas, unit) ==
    LET sorted == SortAsc(candidate_etas)
    IN  [i \in 1..Len(sorted) |-> FormatEta(sorted[i], unit)]

\* C12: with at least one applicable vehicle, a query that asks for all ETAs
\* is answered with the list of every ETA, ascending by raw seconds and
\* formatted entry by entry; one that does not is answered with the first
\* element of that list.
C12_ReturnAll ==
    res.outcome = "hit" =>
        IF arg.return_all_sorted
        THEN /\ "etas" \in DOMAIN res.response
             /\ res.response.etas = AllSortedEtas(res.candidate_etas, arg.unit)
        ELSE res.response = Ok(Head(AllSortedEtas(res.candidate_etas, arg.unit)))

\* the report of SpecCalc is a bus with every field present
ValidBus == arg.device.transport_type = "bus" /\ arg.device.missing = {}
Travelled(part) == arg.device.direction_length * part
StopDistance == arg.device.direction_length * arg.stop_part

\* C13: calculate_eta gives no ETA for any vehicle whose travelled distance
\* is at or beyond the stop's distance (equality and a zero route length
\* included), and a strictly positive duration for every bus with all
\* fields present whose travelled distance is strictly smaller.
C13_PassedStop ==
    res.done =>
        /\ (/\ Has(arg.device, "direction_length") /\ Has(arg.device, "geometry_way_part")
            /\ Travelled(arg.device.geometry_way_part) >= StopDistance)
           => res.eta = NoneEta
        /\ (ValidBus /\ Travelled(arg.device.geometry_way_part) < StopDistance)
           => (res.eta # NoneEta /\ res.eta > 0)

\* a bus exactly at the stop gets no ETA
C13_Witness ==
    /\ res.done /\ ValidBus /\ arg.device.direction_length > 0
    /\ arg.device.geometry_way_part = arg.stop_part
    /\ res.eta = NoneEta

\* C14: of two valid bus reports that differ only in geometry_way_part, both
\* short of the stop on a route of positive length, the one further along
\* has the strictly smaller ETA.
C14_Monotone ==
    (/\ res.done /\ ValidBus /\ arg.device.direction_length > 0
     /\ arg.device.geometry_way_part < arg.stop_part
     /\ arg.part2 < arg.stop_part
     /\ arg.part2 > arg.device.geometry_way_part)
    => (res.eta # NoneEta /\ res.eta2 # NoneEta /\ res.eta2 < res.eta)

C14_Witness ==
    /\ res.done /\ ValidBus /\ arg.device.direction_length > 0
    /\ arg.device.geometry_way_part = 281 /\ arg.part2 = 399 /\ arg.stop_part = 400
    /\ res.eta2 > 0 /\ res.eta2 < res.eta

\* A device is applicable to the query of SpecScan: it carries every field,
\* is a bus of the queried route and direction, and is short of the stop
Applicable(device) ==
    /\ device.missing = {}
    /\ device.transport_type = "bus"
    /\ device.route_name = ScanRoute
    /\ device.direction_id = ScanDirection
    /\ device.direction_length * device.geometry_way_part
         < device.direction_length * ScanStop

\* remaining distance over speed, in units of 1 / EtaDen seconds
EtaOf(device) == device.direction_length * (ScanStop - device.geometry_way_part) * 18

ApplicableEtas == {EtaOf(arg.devices[i]) : i \in {j \in DOMAIN arg.devices : Applicable(arg.devices[j])}}

SetMin(S) == CHOOSE x \in S : \A y \in S : x <= y

\* C15: the reported value comes from exactly the applicable devices of the
\* payload: the query is a hit iff there is one, the reported ETA is the
\* minimum over them, and devices that fail a test (other route, other
\* direction, other type, missing field, past the stop) change nothing.
C15_ApplicableOnly ==
    res.outcome # "" =>
        /\ (res.outcome = "hit") = (ApplicableEtas # {})
        /\ res.outcome = "hit" => res.response = Ok(FormatEta(SetMin(ApplicableEtas), arg.unit))
        /\ LET only == SelectSeq(arg.devices, Applicable)
           IN  res = ServePayload(only, ScanRoute, ScanDirection, ScanStop, arg.unit)

\* the nearer inapplicable device (other direction, 8 s away) is ignored and
\* the bus 90 s away is reported
C15_Witness ==
    /\ res.outcome = "hit"
    /\ arg.devices = <<Device("bus", ScanRoute, "1", 6500, 392, {}),
                       Device("bus", ScanRoute, ScanDirection, 6500, 310, {})>>
    /\ arg.unit = "sec"
    /\ res.response = Ok(EtaNumber(900))

\* the miss count an empty-result query leaves in the entry it read
AfterMiss(miss_read) == IF miss_read + 1 >= MISS_LIMIT THEN 0 ELSE miss_read + 1

\* C16: under any interleaving of queries for one key, an empty-result query
\* increments the miss count of the entry the dict holds at that moment, and
\* does so exactly once; no query changes an entry object that another
\* query's refresh has already replaced.
C16_IncrementOnce ==
    /\ cur.pc \in {"miss", "limit", "hit"} => cur.cached_item = "entry"
    /\ cur.pc = "miss" => EntryOf(cur).miss_count = cur.miss_read
    /\ cur.pc = "limit" =>
          /\ EntryOf(cur).miss_count = cur.miss_read + 1
          /\ cur.miss_count = cur.miss_read + 1
    /\ (Done /\ cur.outcome = "miss") =>
          /\ cur.cached_item = "entry"
          /\ EntryOf(cur).miss_count = AfterMiss(cur.miss_read)

\* a query ends empty, on an entry that already carried a miss, while another
\* query for its key is still waiting for its upstream call
C16_Witness ==
    /\ Done /\ cur.outcome = "miss" /\ ~cur.solo
    /\ InFlight(cur.cache_key) # {}
    /\ cur.miss_read = 1 /\ EntryOf(cur).miss_count = 2

\* C17: a step of a query for one key changes no entry under another key,
\* and no step removes an entry from the dict.
C17_OtherKeysUntouched ==
    [][/\ DOMAIN cache_data \subseteq DOMAIN cache_data'
       /\ \A k \in DOMAIN cache_data :
             cache_data'[k] # cache_data[k] => (cur.pc # "idle" /\ k = cur.cache_key)]_vars

\* both keys hold an entry with misses counted, and a query for one of them
\* has just counted its own
C17_Witness ==
    /\ Done /\ cur.outcome = "miss" /\ cur.cache_key = "5_2"
    /\ DOMAIN cache_data = {"5_2", "7_2"}
    /\ cache_data["5_2"].miss_count = 2
    /\ cache_data["7_2"].miss_count = 1

\* the entry the query found at line 129 (or its absence) is still what the
\* dict holds under the key
AsFound(t) ==
    \/ t.cached_item = "entry"
    \/ t.cached_item = "none" /\ t.cache_key \notin DOMAIN cache_data

C19_NullNeedsLimit ==
    (Done /\ cur.response = Ok(EtaNull)) => since[cur.cache_key] >= MISS_LIMIT

\* the fifth empty-result query on one payload returns null
C19_Witness ==
    /\ Done /\ cur.response = Ok(EtaNull)
    /\ cur.miss_read = MISS_LIMIT - 1
    /\ since[cur.cache_key] = MISS_LIMIT
    /\ EntryOf(cur).miss_count = 0

TypeOK ==
    /\ now \in 0..MaxTime
    /\ DOMAIN cache_data \subseteq Keys
    /\ BagCardinality(pending) <= MaxTasks
====
